---- MODULE Spec2Model ----
(***************************************************************************)
(* git-cx: the run of the default command (staging, rule / scope-history   *)
(* resolution, the prompts, the scope-history write-back, header rendering *)
(* and message assembly, print or commit) and the gen command.             *)
(* src/main.go holds two revisions of the program:                         *)
(* the current one (lines 1-776, resolution through a findcfg finder) and  *)
(* the legacy one (lines 778-1437, resolution by a hand-written cascade).  *)
(* The variable rev says which revision runs.                              *)
(***************************************************************************)
EXTENDS Integers, Sequences, FiniteSets, TLC

VARIABLES
    rev,                    \* "current" (main.go 1-776) or "legacy" (main.go 778-1437)
    pc,                     \* position of the run
    cfg,                    \* gitconfig [cx]: which override keys are set
    os,                     \* whether os.UserConfigDir / os.Executable succeed
    ruleFs,                 \* rule-file candidates on disk, by location
    scopesFs,               \* scope-history candidates on disk, by location
    rule,                   \* c.rule
    scopes,                 \* c.scopes
    scopesFileName,         \* c.scopesFileName
    writeBackScopeHisotry,  \* c.writeBackScopeHisotry (legacy)
    scopesFound,            \* location readScopesFile decoded the history from, or ""
    typ, scope, desc, body, breakingChange,  \* locals of buildupCommitMessage
    input,                  \* the line last submitted at the type prompt
    prompts,                \* number of type prompts issued so far
    stderr,                 \* diagnostics written to os.Stderr, in order
    createCalls,            \* locations os.Create was called on, in order
    created,                \* locations os.Create created or truncated a file at, in order
    header, msg,            \* rendered header, assembled message
    now,                    \* the reading of time.Now()
    flags,                  \* c.All, c.Debug
    wt,                     \* worktree status: something staged, something modified but unstaged
    stdout,                 \* lines written to os.Stdout, in order
    commits,                \* messages committed, in order
    asked,                  \* prefixes of the prompt.Input calls made, in order
    stdin,                  \* the lines the body loop had on standard input
    suggested,              \* completions the last type prompt showed at its start
    genFile,                \* the rule file the gen command wrote, or none
    word,                   \* the word before the cursor at the last call of typeCompleter
    call, ret               \* arguments and result of a matching function called on its own

vars == <<rev, pc, cfg, os, ruleFs, scopesFs, rule, scopes, scopesFileName,
          writeBackScopeHisotry, scopesFound, typ, scope, desc, body,
          breakingChange, input, prompts, stderr, createCalls, created, header,
          msg, now, flags, wt, stdout, commits, asked, stdin, suggested, genFile,
          word, call, ret>>

-----------------------------------------------------------------------------
(* Bounds *)

MaxTypePrompts == 3

-----------------------------------------------------------------------------
(* Strings *)

IsSpace(ch) == ch \in {" ", "\t", "\n", "\r"}

RECURSIVE TrimLeft(_)
TrimLeft(s) ==
    IF Len(s) > 0 /\ IsSpace(SubSeq(s, 1, 1)) THEN TrimLeft(SubSeq(s, 2, Len(s))) ELSE s

RECURSIVE TrimRight(_)
TrimRight(s) ==
    IF Len(s) > 0 /\ IsSpace(SubSeq(s, Len(s), Len(s)))
    THEN TrimRight(SubSeq(s, 1, Len(s) - 1)) ELSE s

TrimSpace(s) == TrimRight(TrimLeft(s))

HasPrefix(s, p) == Len(s) >= Len(p) /\ SubSeq(s, 1, Len(p)) = p

\* least i >= from with s[i .. i+Len(sub)-1] = sub, or 0
RECURSIVE Index(_, _, _)
Index(s, sub, from) ==
    IF from + Len(sub) - 1 > Len(s) THEN 0
    ELSE IF SubSeq(s, from, from + Len(sub) - 1) = sub THEN from
    ELSE Index(s, sub, from + 1)

-----------------------------------------------------------------------------
(* The ordered commit-type registry (orderedmap.OrderedMap[string, CommitType]):
   a sequence of entries with pairwise distinct keys, in insertion order *)

commitTypeAsOM(key, d, emoji) == [key |-> key, Desc |-> d, Emoji |-> emoji]

Keys(types) == [i \in 1..Len(types) |-> types[i].key]

KeySet(types) == {types[i].key : i \in 1..Len(types)}

\* OrderedMap.Get: found, and the entry when found
Found(types, k) == k \in KeySet(types)

Get(types, k) == types[CHOOSE i \in 1..Len(types) : types[i].key = k]

iif(cond, t, f) == IF cond THEN t ELSE f

defaultCommitTypes(emoji) ==
    << commitTypeAsOM("# comment1", "comment starts with #", ""),
       commitTypeAsOM("# comment2", "This default definition is from https://github.com/angular/angular/blob/main/CONTRIBUTING.md#-commit-message-guidelines", ""),
       commitTypeAsOM("feat", "A new feature", iif(emoji, ":sparkles:", "")),
       commitTypeAsOM("fix", "A bug fix", iif(emoji, ":bug:", "")),
       commitTypeAsOM("docs", "Documentation only changes", iif(emoji, ":memo:", "")),
       commitTypeAsOM("refactor", "A code change that neither fixes a bug nor adds a feature", iif(emoji, ":recycle:", "")),
       commitTypeAsOM("perf", "A code change that improves performance", iif(emoji, ":zap:", "")),
       commitTypeAsOM("test", "Adding missing tests or correcting existing tests", iif(emoji, ":test_tube:", "")),
       commitTypeAsOM("build", "Changes that affect the build system or external dependencies", iif(emoji, ":package:", "")),
       commitTypeAsOM("ci", "Changes to our CI configuration files and scripts", iif(emoji, ":hammer:", "")),
       commitTypeAsOM("revert", "Reverts a previous commit", iif(emoji, ":rewind:", "")) >>

DefaultHeaderFormat ==
    "{{.type}}{{.scope_with_parens}}{{.bang}}: {{.emoji_unicode}}{{.description}}"

defaultRule(emoji) ==
    [ Types             |-> defaultCommitTypes(emoji),
      DenyEmptyType     |-> FALSE,
      DenyAdlibType     |-> FALSE,
      UseBreakingChange |-> FALSE,
      HeaderFormat      |-> DefaultHeaderFormat ]

legacyDefaultCommitTypes ==
    << commitTypeAsOM("# comment1", "comment starts with #", ""),
       commitTypeAsOM("# comment2", "This default definition is from https://github.com/commitizen/conventional-commit-types/blob/master/index.json", ""),
       commitTypeAsOM("feat", "A new feature", ":sparkles:"),
       commitTypeAsOM("fix", "A bug fix", ":bug:"),
       commitTypeAsOM("docs", "Documentation only changes", ":memo:"),
       commitTypeAsOM("style", "Changes that do not affect the meaning of the code", ":gem:"),
       commitTypeAsOM("refactor", "A code change that neither fixes a bug nor adds a feature", ":recycle:"),
       commitTypeAsOM("perf", "A code change that improves performance", ":zap:"),
       commitTypeAsOM("test", "Adding missing tests or correcting existing tests", ":test_tube:"),
       commitTypeAsOM("build", "Changes that affect the build system or external dependencies", ":package:"),
       commitTypeAsOM("ci", "Changes to our CI configuration files and scripts", ":hammer:"),
       commitTypeAsOM("chore", "Other changes that don't modify src or test files", ""),
       commitTypeAsOM("revert", "Reverts a previous commit", ":rewind:") >>

legacyDefaultRule ==
    [ Types             |-> legacyDefaultCommitTypes,
      DenyEmptyType     |-> FALSE,
      DenyAdlibType     |-> FALSE,
      UseBreakingChange |-> FALSE,
      HeaderFormat      |-> DefaultHeaderFormat ]

-----------------------------------------------------------------------------
(* Emoji: emoji.Emojize replaces a known shortcode by its glyph followed by
   the library's padding blank and leaves other text alone; the glyphs are
   written here as ASCII stand-ins *)

Glyph ==
    [ sc \in {":sparkles:", ":bug:", ":memo:", ":gem:", ":recycle:", ":zap:",
              ":test_tube:", ":package:", ":hammer:", ":rewind:"} |->
        "<" \o SubSeq(sc, 2, Len(sc) - 1) \o ">" ]

Emojize(e) == IF e \in DOMAIN Glyph THEN Glyph[e] \o " " ELSE e

\* emojiOf without the trim of the glyph
emojiOf_untrimmed(r, t, emojize) ==
    IF Found(r.Types, t)
    THEN LET e == Get(r.Types, t).Emoji
         IN  IF emojize THEN Emojize(e) ELSE e
    ELSE ""

emojiOf(r, t, emojize) ==
    IF Found(r.Types, t)
    THEN LET e == Get(r.Types, t).Emoji
         IN  IF emojize THEN TrimSpace(Emojize(e)) ELSE e
    ELSE ""

-----------------------------------------------------------------------------
(* text/template, for header formats made of literal text and field chains
   ({{.name}}, {{.name.more}}).  An unclosed action and an action that is
   not a field chain (such as {{type}}, which names an undefined function)
   are parse errors; a chain of more than one field fails at execution,
   because the data is a map[string]string *)

IsIdent(s) ==
    /\ Len(s) > 0
    /\ \A i \in 1..Len(s) :
          SubSeq(s, i, i) \in {"a","b","c","d","e","f","g","h","i","j","k","l","m",
                               "n","o","p","q","r","s","t","u","v","w","x","y","z","_"}

\* s = ".a.b.c" gives <<"a","b","c">>; <<>> when s is not a field chain
RECURSIVE FieldChain(_)
FieldChain(s) ==
    IF ~HasPrefix(s, ".") THEN <<>>
    ELSE LET k    == Index(s, ".", 2)
             name == IF k = 0 THEN SubSeq(s, 2, Len(s)) ELSE SubSeq(s, 2, k - 1)
         IN  IF ~IsIdent(name) THEN <<>>
             ELSE IF k = 0 THEN <<name>>
             ELSE LET more == FieldChain(SubSeq(s, k, Len(s)))
                  IN  IF more = <<>> THEN <<>> ELSE <<name>> \o more

TextNode(s) == IF s = "" THEN <<>> ELSE << [kind |-> "text", text |-> s, names |-> <<>>] >>

\* template.New("").Parse: ok and the node list, or not ok
RECURSIVE Parse(_)
Parse(s) ==
    LET i == Index(s, "{{", 1)
    IN  IF i = 0 THEN [ok |-> TRUE, nodes |-> TextNode(s)]
        ELSE LET j == Index(s, "}}", i + 2)
             IN  IF j = 0 THEN [ok |-> FALSE, nodes |-> <<>>]
                 ELSE LET chain == FieldChain(TrimSpace(SubSeq(s, i + 2, j - 1)))
                          rest  == Parse(SubSeq(s, j + 2, Len(s)))
                      IN  IF chain = <<>> \/ ~rest.ok THEN [ok |-> FALSE, nodes |-> <<>>]
                          ELSE [ok |-> TRUE,
                                nodes |-> TextNode(SubSeq(s, 1, i - 1))
                                          \o << [kind |-> "field", text |-> "", names |-> chain] >>
                                          \o rest.nodes]

\* templ.Execute into a buffer: what was written before the first failing
\* node stays in the buffer
RECURSIVE Execute(_, _)
Execute(nodes, data) ==
    IF nodes = <<>> THEN [err |-> FALSE, out |-> ""]
    ELSE LET n == Head(nodes)
         IN  IF n.kind = "text"
             THEN LET r == Execute(Tail(nodes), data)
                  IN  [err |-> r.err, out |-> n.text \o r.out]
             ELSE IF Len(n.names) > 1 THEN [err |-> TRUE, out |-> ""]
             ELSE LET v == IF n.names[1] \in DOMAIN data THEN data[n.names[1]] ELSE ""
                      r == Execute(Tail(nodes), data)
                  IN  [err |-> r.err, out |-> v \o r.out]

-----------------------------------------------------------------------------
(* Files.  A candidate location is the gitconfig override path ("exact"), the
   default name in the worktree root ("root"), in the per-user configuration
   directory ("user"), next to the executable ("exe"), or the default name
   taken relative to the working directory ("cwd").  A location has an
   extension; a file that is present has bytes that yaml.Unmarshal and
   json.Unmarshal accept or not, and the value they decode to *)

Locations == {"exact", "root", "user", "exe", "cwd"}

Exts == {".yaml", ".json", ""}

NoFile(e) ==
    [present |-> FALSE, ext |-> e, yamlOk |-> FALSE, jsonOk |-> FALSE,
     val |-> <<>>, jval |-> <<>>]

\* a file whose bytes decode, where they decode, to yv with yaml.Unmarshal and
\* to jv with json.Unmarshal
FileAs(e, y, j, yv, jv) ==
    [present |-> TRUE, ext |-> e, yamlOk |-> y, jsonOk |-> j, val |-> yv, jval |-> jv]

\* a file that both decoders, where they accept it, decode to the same value
File(e, y, j, v) == FileAs(e, y, j, v, v)

UpperOf ==
    [ a |-> "A", b |-> "B", c |-> "C", d |-> "D", e |-> "E", f |-> "F", g |-> "G",
      h |-> "H", i |-> "I", j |-> "J", k |-> "K", l |-> "L", m |-> "M", n |-> "N",
      o |-> "O", p |-> "P", q |-> "Q", r |-> "R", s |-> "S", t |-> "T", u |-> "U",
      v |-> "V", w |-> "W", x |-> "X", y |-> "Y", z |-> "Z" ]

\* strings.ToUpper
RECURSIVE ToUpper(_)
ToUpper(s) ==
    IF s = "" THEN ""
    ELSE LET c == SubSeq(s, 1, 1)
         IN  (IF c \in DOMAIN UpperOf THEN UpperOf[c] ELSE c)
             \o ToUpper(SubSeq(s, 2, Len(s)))


\* func in: strings.EqualFold against each choice
in(s, choices) == \E c \in choices : ToUpper(s) = ToUpper(c)

\* the extension dispatch shared by tryReadRuleFile and tryReadScopesFile:
\* TRUE when the read fails
ReadFails_retry(f) == ~f.present \/ (~f.yamlOk /\ ~f.jsonOk)

ReadFails(f) ==
    IF ~f.present THEN TRUE
    ELSE IF in(f.ext, {".yaml", ".yml"}) THEN ~f.yamlOk
    ELSE IF in(f.ext, {".json"}) THEN ~f.jsonOk
    ELSE ~f.yamlOk /\ ~f.jsonOk

\* the value the dispatch decodes: the YAML decoding for .yaml / .yml, the
\* JSON decoding for .json, and otherwise the YAML decoding unless only the
\* JSON decoder accepts the bytes
Decoded(f) ==
    IF in(f.ext, {".yaml", ".yml"}) THEN f.val
    ELSE IF in(f.ext, {".json"}) THEN f.jval
    ELSE IF f.yamlOk THEN f.val
    ELSE f.jval

\* legacy tryReadRuleFile / tryReadScopesFile: JSON only
LegacyReadFails(f) == ~f.present \/ ~f.jsonOk

tryReadRuleFile(f) == [err |-> ReadFails(f), r |-> Decoded(f)]

legacyTryReadRuleFile(f) == [err |-> LegacyReadFails(f), r |-> f.jval]

\* a scope-history file holds (scope, timestamp) pairs in file order; decoding
\* gives the map, a later pair for the same scope winning
RECURSIVE DecodeScopes(_)
DecodeScopes(pairs) ==
    IF pairs = <<>> THEN <<>>
    ELSE LET n    == Len(pairs)
             init == DecodeScopes(SubSeq(pairs, 1, n - 1))
             last == pairs[n]
         IN  [s \in (DOMAIN init) \cup {last.scope} |->
                 IF s = last.scope THEN last.ts ELSE init[s]]

tryReadScopesFile(f) == [err |-> ReadFails(f), sc |-> DecodeScopes(Decoded(f))]

legacyTryReadScopesFile(f) == [err |-> LegacyReadFails(f), sc |-> DecodeScopes(f.jval)]

\* getGitConfig / getConfig joined with the root: the override location, or ""
exactPathOf(set) == IF set THEN "exact" ELSE ""

\* findcfg: the finder's search order as configured by ExactPath, Dir,
\* UserConfigDir, ExecutableDir
FinderOrder(exactPath) ==
    (IF exactPath = "" THEN <<>> ELSE <<exactPath>>) \o <<"root", "user", "exe">>

\* finder.Find: the first location of the order that holds a file, or ""
RECURSIVE FirstPresent(_, _)
FirstPresent(fs, order) ==
    IF order = <<>> THEN ""
    ELSE IF fs[Head(order)].present THEN Head(order)
    ELSE FirstPresent(fs, Tail(order))

Find(fs, exactPath) == FirstPresent(fs, FinderOrder(exactPath))

\* finder.FallbackPath: the expected location of the lowest-priority tier
FallbackPath == "exe"

\* readRuleFile changed to go on to the next location when a file fails to decode
RECURSIVE FirstReadable(_, _)
FirstReadable(fs, order) ==
    IF order = <<>> THEN ""
    ELSE IF ~tryReadRuleFile(fs[Head(order)]).err THEN Head(order)
    ELSE FirstReadable(fs, Tail(order))

readRuleFile_fallthrough(fs, cfgSet) ==
    LET found == FirstReadable(fs, FinderOrder(exactPathOf(cfgSet)))
    IN  IF found # ""
        THEN [r |-> tryReadRuleFile(fs[found]).r, path |-> found]
        ELSE [r |-> defaultRule(FALSE), path |-> FallbackPath]

\* readRuleFile (current): the rule and the path shown in the help text
readRuleFile(fs, cfgSet) ==
    LET exactPath == exactPathOf(cfgSet)
        found     == Find(fs, exactPath)
        t         == tryReadRuleFile(fs[found])
    IN  IF found # "" /\ ~t.err
        THEN [r |-> t.r, path |-> found]
        ELSE [r |-> defaultRule(FALSE), path |-> FallbackPath]

\* globalCmd.readRuleFile (legacy): each tier is tried in turn; the
\* executable-directory branch is entered when os.Executable fails, and then
\* joins the empty directory with the default name
legacyReadRuleFile(fs, cfgSet, o) ==
    IF cfgSet /\ ~legacyTryReadRuleFile(fs["exact"]).err
        THEN legacyTryReadRuleFile(fs["exact"]).r
    ELSE IF ~legacyTryReadRuleFile(fs["root"]).err
        THEN legacyTryReadRuleFile(fs["root"]).r
    ELSE IF o.user /\ ~legacyTryReadRuleFile(fs["user"]).err
        THEN legacyTryReadRuleFile(fs["user"]).r
    ELSE IF ~o.exe /\ ~legacyTryReadRuleFile(fs["cwd"]).err
        THEN legacyTryReadRuleFile(fs["cwd"]).r
    ELSE legacyDefaultRule

\* readScopesFile (current): the history and the name kept for the write-back
readScopesFile(fs, cfgSet) ==
    LET exactPath == exactPathOf(cfgSet)
        found     == Find(fs, exactPath)
        t         == tryReadScopesFile(fs[found])
    IN  IF found # ""
        THEN IF ~t.err
             THEN [sc |-> t.sc, fileName |-> exactPath, from |-> found]
             ELSE [sc |-> <<>>, fileName |-> FallbackPath, from |-> ""]
        ELSE [sc |-> <<>>, fileName |-> FallbackPath, from |-> ""]

\* globalCmd.readScopesFile (legacy): history, file name, write-back flag
legacyReadScopesFile(fs, cfgSet, o) ==
    IF cfgSet /\ ~legacyTryReadScopesFile(fs["exact"]).err
        THEN [sc |-> legacyTryReadScopesFile(fs["exact"]).sc, fileName |-> "exact", wb |-> TRUE]
    ELSE IF ~legacyTryReadScopesFile(fs["root"]).err
        THEN [sc |-> legacyTryReadScopesFile(fs["root"]).sc, fileName |-> "root", wb |-> TRUE]
    ELSE IF o.user /\ ~legacyTryReadScopesFile(fs["user"]).err
        THEN [sc |-> legacyTryReadScopesFile(fs["user"]).sc, fileName |-> "user", wb |-> FALSE]
    ELSE IF o.exe /\ ~legacyTryReadScopesFile(fs["exe"]).err
        THEN [sc |-> legacyTryReadScopesFile(fs["exe"]).sc, fileName |-> "exe", wb |-> FALSE]
    ELSE [sc |-> <<>>, fileName |-> "", wb |-> FALSE]

-----------------------------------------------------------------------------
(* The run: prepare, then buildupCommitMessage step by step *)

nilRule ==
    [ Types |-> <<>>, DenyEmptyType |-> FALSE, DenyAdlibType |-> FALSE,
      UseBreakingChange |-> FALSE, HeaderFormat |-> "" ]

\* runStart that stages under --all even when --debug is given
runStart_stagesInDebug ==
    /\ pc = "start"
    /\ \E addOk \in BOOLEAN :
         LET adds   == flags.All /\ wt.dirty
             failed == adds /\ ~addOk /\ rev = "current"
             wt1    == IF adds /\ addOk THEN [staged |-> TRUE, dirty |-> FALSE] ELSE wt
             e1     == IF flags.Debug \/ rev = "legacy" THEN <<"wd">> ELSE <<>>
             e2     == IF ~wt1.staged /\ ~failed THEN <<"no changes">> ELSE <<>>
         IN  /\ wt' = wt1
             /\ stderr' = stderr \o e1 \o e2
             /\ pc' = IF failed THEN "failed"
                      ELSE IF ~wt1.staged /\ ~flags.Debug THEN "done"
                      ELSE "prepare"
    /\ UNCHANGED <<rev, cfg, os, ruleFs, scopesFs, rule, scopes, scopesFileName,
                   writeBackScopeHisotry, scopesFound, typ, scope, desc, body,
                   breakingChange, input, prompts, createCalls, created, header, msg,
                   now, flags, stdout, commits, asked, stdin, suggested, genFile,
                   word, call, ret>>

\* globalCmd.Run up to the call of prepare: the working directory is printed
\* (always in the legacy revision, under --debug in the current one), the
\* modified files are staged under --all, and the run ends with "no changes"
\* when nothing is staged.  A failing wt.Add ends the run in the current
\* revision and is ignored in the legacy one
\* Run that goes on to the prompts whatever the staging area holds
runStart_noStagedCheck ==
    /\ pc = "start"
    /\ \E addOk \in BOOLEAN :
         LET adds   == ~flags.Debug /\ flags.All /\ wt.dirty
             failed == adds /\ ~addOk /\ rev = "current"
             wt1    == IF adds /\ addOk THEN [staged |-> TRUE, dirty |-> FALSE] ELSE wt
             e1     == IF flags.Debug \/ rev = "legacy" THEN <<"wd">> ELSE <<>>
             e2     == IF ~wt1.staged /\ ~failed THEN <<"no changes">> ELSE <<>>
         IN  /\ wt' = wt1
             /\ stderr' = stderr \o e1 \o e2
             /\ pc' = IF failed THEN "failed" ELSE "prepare"
    /\ UNCHANGED <<rev, cfg, os, ruleFs, scopesFs, rule, scopes, scopesFileName,
                   writeBackScopeHisotry, scopesFound, typ, scope, desc, body,
                   breakingChange, input, prompts, createCalls, created, header, msg,
                   now, flags, stdout, commits, asked, stdin, suggested, genFile,
                   word, call, ret>>

runStart ==
    /\ pc = "start"
    /\ \E addOk \in BOOLEAN :
         LET adds   == ~flags.Debug /\ flags.All /\ wt.dirty
             failed == adds /\ ~addOk /\ rev = "current"
             wt1    == IF adds /\ addOk THEN [staged |-> TRUE, dirty |-> FALSE] ELSE wt
             e1     == IF flags.Debug \/ rev = "legacy" THEN <<"wd">> ELSE <<>>
             e2     == IF ~wt1.staged /\ ~failed THEN <<"no changes">> ELSE <<>>
         IN  /\ wt' = wt1
             /\ stderr' = stderr \o e1 \o e2
             /\ pc' = IF failed THEN "failed"
                      ELSE IF ~wt1.staged /\ ~flags.Debug THEN "done"
                      ELSE "prepare"
    /\ UNCHANGED <<rev, cfg, os, ruleFs, scopesFs, rule, scopes, scopesFileName,
                   writeBackScopeHisotry, scopesFound, typ, scope, desc, body,
                   breakingChange, input, prompts, createCalls, created, header, msg,
                   now, flags, stdout, commits, asked, stdin, suggested, genFile,
                   word, call, ret>>

\* what marshalling a rule emits: the registry entries in the order of
\* Types.Keys(), each looked up by its key, comment entries included
MarshalRule(r) ==
    [ r EXCEPT !.Types = [i \in 1..Len(Keys(r.Types)) |-> Get(r.Types, Keys(r.Types)[i])] ]

\* genCmd.Run: writes defaultRule() to the default name in the working
\* directory (taken to be the repository root) or to the path given as
\* argument (here the override path).  src/unnamed/part_002 (with the current
\* revision) writes YAML unless the name ends in .json and defaults to a
\* .yaml name; src/cmd_gen.go (with the legacy revision) always writes JSON to
\* a .json default name.  Both emit the registry of their defaultRule(), that
\* of legacyDefaultRule.  The command is an invocation of its own: when it
\* succeeds the program can be started again
gen(Targets) ==
    /\ pc = "start"
    /\ ~genFile.present
    /\ \E l \in Targets, createOk, writeOk \in BOOLEAN :
         LET e    == IF l = "root" THEN (IF rev = "current" THEN ".yaml" ELSE ".json")
                     ELSE ruleFs[l].ext
             json == rev = "legacy" \/ in(e, {".json"})
             f    == File(e, TRUE, json, MarshalRule(legacyDefaultRule))
         IN  /\ l = "exact" => cfg.rule
             /\ stderr' = Append(stderr, "output: " \o l)
             /\ IF createOk /\ writeOk
                THEN /\ ruleFs' = [ruleFs EXCEPT ![l] = f]
                     /\ genFile' = f
                     /\ pc' = "start"
                ELSE /\ ruleFs' = IF createOk
                                  THEN [ruleFs EXCEPT ![l] = File(e, FALSE, FALSE, nilRule)]
                                  ELSE ruleFs
                     /\ genFile' = genFile
                     /\ pc' = "genFailed"
    /\ UNCHANGED <<rev, cfg, os, scopesFs, rule, scopes, scopesFileName,
                   writeBackScopeHisotry, scopesFound, typ, scope, desc, body,
                   breakingChange, input, prompts, createCalls, created, header, msg,
                   now, flags, wt, stdout, commits, asked, stdin, suggested,
                   word, call, ret>>

\* globalCmd.Run after buildupCommitMessage: under --debug the message is
\* printed, otherwise it is committed (git commit -F in the current revision,
\* wt.Commit in the legacy one), which may fail
runEnd ==
    /\ pc = "built"
    /\ IF flags.Debug
       THEN /\ stdout' = stdout \o <<"----------", msg>>
            /\ pc' = "done"
            /\ UNCHANGED <<commits, wt>>
       ELSE \E commitOk \in BOOLEAN :
              IF commitOk
              THEN /\ commits' = Append(commits, msg)
                   /\ wt' = [wt EXCEPT !.staged = FALSE]
                   /\ pc' = "done"
                   /\ stdout' = stdout
              ELSE /\ pc' = "failed"
                   /\ UNCHANGED <<commits, wt, stdout>>
    /\ UNCHANGED <<rev, cfg, os, ruleFs, scopesFs, rule, scopes, scopesFileName,
                   writeBackScopeHisotry, scopesFound, typ, scope, desc, body,
                   breakingChange, input, prompts, stderr, createCalls, created,
                   header, msg, now, flags, asked, stdin, suggested, genFile,
                   word, call, ret>>

\* globalCmd.prepare (current)
prepare ==
    /\ rev = "current"
    /\ pc = "prepare"
    /\ rule' = readRuleFile(ruleFs, cfg.rule).r
    /\ LET s == readScopesFile(scopesFs, cfg.scopes)
       IN  /\ scopes' = s.sc
           /\ scopesFileName' = s.fileName
           /\ scopesFound' = s.from
    /\ pc' = "promptType"
    /\ UNCHANGED <<rev, cfg, os, ruleFs, scopesFs, writeBackScopeHisotry, typ, scope,
                   desc, body, breakingChange, input, prompts, stderr, createCalls, created,
                   header, msg, now,
                   flags, wt, stdout, commits, asked, stdin, suggested, genFile,
                   word, call, ret>>

\* globalCmd.prepare (legacy)
prepare_legacy ==
    /\ rev = "legacy"
    /\ pc = "prepare"
    /\ rule' = legacyReadRuleFile(ruleFs, cfg.rule, os)
    /\ LET s == legacyReadScopesFile(scopesFs, cfg.scopes, os)
       IN  /\ scopes' = s.sc
           /\ scopesFileName' = s.fileName
           /\ writeBackScopeHisotry' = s.wb
           /\ scopesFound' = s.fileName
    /\ pc' = "promptType"
    /\ UNCHANGED <<rev, cfg, os, ruleFs, scopesFs, typ, scope, desc, body,
                   breakingChange, input, prompts, stderr, createCalls, created, header, msg, now,
                   flags, wt, stdout, commits, asked, stdin, suggested, genFile,
                   word, call, ret>>

-----------------------------------------------------------------------------
(* Completion matching *)

\* fuzzyMatch from position sIdx of s: each character of sub is looked for
\* from sIdx on, and the search goes on after the place it was found at
RECURSIVE fuzzyFrom(_, _, _)
fuzzyFrom(s, sIdx, sub) ==
    IF sub = "" THEN TRUE
    ELSE LET c    == SubSeq(sub, 1, 1)
             hits == {i \in sIdx..Len(s) : SubSeq(s, i, i) = c}
         IN  IF hits = {} THEN FALSE
             ELSE LET at == CHOOSE i \in hits : \A j \in hits : i <= j
                  IN  fuzzyFrom(s, at + 1, SubSeq(sub, 2, Len(sub)))

\* a match that only asks for every character of sub to occur in s
fuzzyMatch_anyOrder(s, sub) ==
    \A i \in 1..Len(sub) : \E j \in 1..Len(s) : SubSeq(s, j, j) = SubSeq(sub, i, i)

fuzzyMatch(s, sub) == fuzzyFrom(s, 1, sub)

\* strings.HasPrefix(s, sub), as FilterHasPrefix passes it
hasPrefixMatch(s, sub) == HasPrefix(s, sub)

\* a call of the function value handed to filterSuggestions, the value being
\* given by the name of the function
callFunction(function, s, sub) ==
    IF function = "fuzzyMatch" THEN fuzzyMatch(s, sub) ELSE hasPrefixMatch(s, sub)

\* the loop of filterSuggestions: the suggestions whose text or description
\* the function accepts, appended in the order they are met
filterLoop(suggestions, sub, ignoreCase, function) ==
    LET c(i)  == IF ignoreCase THEN ToUpper(suggestions[i].Text)
                 ELSE suggestions[i].Text
        d(i)  == IF ignoreCase THEN ToUpper(suggestions[i].Description)
                 ELSE suggestions[i].Description
        kept  == {i \in 1..Len(suggestions) :
                    callFunction(function, c(i), sub) \/ callFunction(function, d(i), sub)}
        nth(k) == CHOOSE i \in kept : Cardinality({j \in kept : j <= i}) = k
    IN  [k \in 1..Cardinality(kept) |-> suggestions[nth(k)]]

filterSuggestions(suggestions, sub, ignoreCase, function) ==
    IF sub = "" THEN suggestions
    ELSE filterLoop(suggestions, IF ignoreCase THEN ToUpper(sub) ELSE sub,
                    ignoreCase, function)

\* prompt.FilterHasPrefix: the suggestions whose text starts with sub
RECURSIVE FilterHasPrefix(_, _, _)
FilterHasPrefix(suggestions, sub, ignoreCase) ==
    IF sub = "" \/ suggestions = <<>> THEN suggestions
    ELSE LET t    == Head(suggestions).Text
             keep == IF ignoreCase THEN hasPrefixMatch(ToUpper(t), ToUpper(sub))
                     ELSE hasPrefixMatch(t, sub)
             rest == FilterHasPrefix(Tail(suggestions), sub, ignoreCase)
         IN  IF keep THEN <<Head(suggestions)>> \o rest ELSE rest

\* typeCompleter of promptType: a prefix filter in the current revision, the
\* fuzzy filter in the legacy one
typeCompleter(items, w) ==
    IF rev = "current" THEN FilterHasPrefix(items, w, TRUE)
    ELSE filterSuggestions(items, w, TRUE, "fuzzyMatch")

\* the suggestion items with the comment entries kept
RECURSIVE typeItemsOf_keepsComments(_, _)
typeItemsOf_keepsComments(r, ks) ==
    IF ks = <<>> THEN <<>>
    ELSE LET k   == Head(ks)
             sep == IF rev = "current" THEN " " ELSE ""
         IN  IF Get(r.Types, k).Desc = ""
             THEN typeItemsOf_keepsComments(r, Tail(ks))
             ELSE << [ Text |-> k,
                       Description |-> emojiOf(r, k, TRUE) \o sep \o Get(r.Types, k).Desc ] >>
                  \o typeItemsOf_keepsComments(r, Tail(ks))

\* the items built with only the comment keys left out
RECURSIVE typeItemsOf_keepsUndescribed(_, _)
typeItemsOf_keepsUndescribed(r, ks) ==
    IF ks = <<>> THEN <<>>
    ELSE LET k   == Head(ks)
             sep == IF rev = "current" THEN " " ELSE ""
         IN  IF HasPrefix(k, "#")
             THEN typeItemsOf_keepsUndescribed(r, Tail(ks))
             ELSE << [ Text |-> k,
                       Description |-> emojiOf(r, k, TRUE) \o sep \o Get(r.Types, k).Desc ] >>
                  \o typeItemsOf_keepsUndescribed(r, Tail(ks))

\* the suggestion items promptType builds from the registry
RECURSIVE typeItemsOf(_, _)
typeItemsOf(r, ks) ==
    IF ks = <<>> THEN <<>>
    ELSE LET k   == Head(ks)
             sep == IF rev = "current" THEN " " ELSE ""
         IN  IF HasPrefix(k, "#") \/ Get(r.Types, k).Desc = ""
             THEN typeItemsOf(r, Tail(ks))
             ELSE << [ Text |-> k,
                       Description |-> emojiOf(r, k, TRUE) \o sep \o Get(r.Types, k).Desc ] >>
                  \o typeItemsOf(r, Tail(ks))

\* the completer is first called on the empty word (completion shown at
\* start), for which the filter of either revision returns every item
typeItems(r) == typeItemsOf(r, Keys(r.Types))

\* the user types a word at the open type prompt and the completer is called
typeWord(Words) ==
    /\ pc = "promptType"
    /\ \E w \in Words :
         /\ word' = w
         /\ suggested' = typeCompleter(typeItems(rule), w)
    /\ UNCHANGED <<rev, pc, cfg, os, ruleFs, scopesFs, rule, scopes, scopesFileName,
                   writeBackScopeHisotry, scopesFound, typ, scope, desc, body,
                   breakingChange, input, prompts, stderr, createCalls, created,
                   header, msg, now, flags, wt, stdout, commits, asked, stdin,
                   genFile, call, ret>>

\* fuzzyMatch called on its own
callFuzzyMatch ==
    /\ pc = "call"
    /\ call.fn = "fuzzyMatch"
    /\ ret' = fuzzyMatch(call.s, call.sub)
    /\ pc' = "returned"
    /\ UNCHANGED <<rev, cfg, os, ruleFs, scopesFs, rule, scopes, scopesFileName,
                   writeBackScopeHisotry, scopesFound, typ, scope, desc, body,
                   breakingChange, input, prompts, stderr, createCalls, created,
                   header, msg, now, flags, wt, stdout, commits, asked, stdin,
                   suggested, genFile, word, call>>

\* filterSuggestions called on its own, with fuzzyMatch as its function
callFilterSuggestions ==
    /\ pc = "call"
    /\ call.fn = "filterSuggestions"
    /\ ret' = filterSuggestions(call.items, call.sub, call.ignoreCase, "fuzzyMatch")
    /\ pc' = "returned"
    /\ UNCHANGED <<rev, cfg, os, ruleFs, scopesFs, rule, scopes, scopesFileName,
                   writeBackScopeHisotry, scopesFound, typ, scope, desc, body,
                   breakingChange, input, prompts, stderr, createCalls, created,
                   header, msg, now, flags, wt, stdout, commits, asked, stdin,
                   suggested, genFile, word, call>>

\* promptType without the reset of an ad-lib type
promptType_keepsAdlib(Lines) ==
    /\ pc = "promptType"
    /\ prompts < MaxTypePrompts
    /\ \E line \in Lines :
         LET required == line = "" /\ rule.DenyEmptyType
             adlib    == line # "" /\ rule.DenyAdlibType /\ ~Found(rule.Types, line)
             d1       == IF required THEN <<"type is required">> ELSE <<>>
             d2       == IF adlib THEN <<"ad-lib type is not allowed">> ELSE <<>>
         IN  /\ input' = line
             /\ prompts' = prompts + 1
             /\ asked' = Append(asked, "Type: ")
             /\ suggested' = typeItems(rule)
             /\ word' = ""
             /\ stderr' = stderr \o d1 \o d2
             /\ typ' = line
             /\ pc' = IF line = "" THEN "promptType" ELSE "promptScope"
    /\ UNCHANGED <<rev, cfg, os, ruleFs, scopesFs, rule, scopes, scopesFileName,
                   writeBackScopeHisotry, scopesFound, scope, desc, body,
                   breakingChange, createCalls, created, header, msg, now,
                   flags, wt, stdout, commits, stdin, genFile,
                   call, ret>>

\* promptType with the diagnostic for an empty type left out
promptType_silentEmpty(Lines) ==
    /\ pc = "promptType"
    /\ prompts < MaxTypePrompts
    /\ \E line \in Lines :
         LET adlib    == line # "" /\ rule.DenyAdlibType /\ ~Found(rule.Types, line)
             d2       == IF adlib THEN <<"ad-lib type is not allowed">> ELSE <<>>
             t        == IF adlib THEN "" ELSE line
         IN  /\ input' = line
             /\ prompts' = prompts + 1
             /\ asked' = Append(asked, "Type: ")
             /\ suggested' = typeItems(rule)
             /\ word' = ""
             /\ stderr' = stderr \o d2
             /\ typ' = t
             /\ pc' = IF t = "" THEN "promptType" ELSE "promptScope"
    /\ UNCHANGED <<rev, cfg, os, ruleFs, scopesFs, rule, scopes, scopesFileName,
                   writeBackScopeHisotry, scopesFound, scope, desc, body,
                   breakingChange, createCalls, created, header, msg, now,
                   flags, wt, stdout, commits, stdin, genFile,
                   call, ret>>

\* promptType that takes for ad-lib whatever is not among the suggestions
promptType_suggestedOnly(Lines) ==
    /\ pc = "promptType"
    /\ prompts < MaxTypePrompts
    /\ \E line \in Lines :
         LET required == line = "" /\ rule.DenyEmptyType
             items    == typeItems(rule)
             adlib    == /\ line # ""
                         /\ rule.DenyAdlibType
                         /\ \A i \in 1..Len(items) : items[i].Text # line
             d1       == IF required THEN <<"type is required">> ELSE <<>>
             d2       == IF adlib THEN <<"ad-lib type is not allowed">> ELSE <<>>
             t        == IF adlib THEN "" ELSE line
         IN  /\ input' = line
             /\ prompts' = prompts + 1
             /\ asked' = Append(asked, "Type: ")
             /\ suggested' = typeItems(rule)
             /\ word' = ""
             /\ stderr' = stderr \o d1 \o d2
             /\ typ' = t
             /\ pc' = IF t = "" THEN "promptType" ELSE "promptScope"
    /\ UNCHANGED <<rev, cfg, os, ruleFs, scopesFs, rule, scopes, scopesFileName,
                   writeBackScopeHisotry, scopesFound, scope, desc, body,
                   breakingChange, createCalls, created, header, msg, now,
                   flags, wt, stdout, commits, stdin, genFile,
                   call, ret>>

\* one pass of the loop of promptType on a submitted line
promptType(Lines) ==
    /\ pc = "promptType"
    /\ prompts < MaxTypePrompts
    /\ \E line \in Lines :
         LET required == line = "" /\ rule.DenyEmptyType
             adlib    == line # "" /\ rule.DenyAdlibType /\ ~Found(rule.Types, line)
             d1       == IF required THEN <<"type is required">> ELSE <<>>
             d2       == IF adlib THEN <<"ad-lib type is not allowed">> ELSE <<>>
             t        == IF adlib THEN "" ELSE line
         IN  /\ input' = line
             /\ prompts' = prompts + 1
             /\ asked' = Append(asked, "Type: ")
             /\ suggested' = typeItems(rule)
             /\ word' = ""
             /\ stderr' = stderr \o d1 \o d2
             /\ typ' = t
             /\ pc' = IF t = "" THEN "promptType" ELSE "promptScope"
    /\ UNCHANGED <<rev, cfg, os, ruleFs, scopesFs, rule, scopes, scopesFileName,
                   writeBackScopeHisotry, scopesFound, scope, desc, body,
                   breakingChange, createCalls, created, header, msg, now,
                   flags, wt, stdout, commits, stdin, genFile,
                   call, ret>>

promptScope(Lines) ==
    /\ pc = "promptScope"
    /\ \E line \in Lines : scope' = line
    /\ asked' = Append(asked, "Scope: ")
    /\ pc' = "promptDesc"
    /\ UNCHANGED <<rev, cfg, os, ruleFs, scopesFs, rule, scopes, scopesFileName,
                   writeBackScopeHisotry, scopesFound, typ, desc, body,
                   breakingChange, input, prompts, stderr, createCalls, created, header, msg, now,
                   flags, wt, stdout, commits, stdin, suggested, genFile,
                   word, call, ret>>

\* promptDesc without the diagnostic for an empty description
promptDesc_silent(Lines) ==
    /\ pc = "promptDesc"
    /\ \E line \in Lines : desc' = TrimSpace(line)
    /\ asked' = Append(asked, "Description: ")
    /\ pc' = "promptBody"
    /\ UNCHANGED <<rev, cfg, os, ruleFs, scopesFs, rule, scopes, scopesFileName,
                   writeBackScopeHisotry, scopesFound, typ, scope, body,
                   breakingChange, input, prompts, stderr, createCalls, created,
                   header, msg, now, flags, wt, stdout, commits, stdin, suggested,
                   genFile, word, call, ret>>

promptDesc(Lines) ==
    /\ pc = "promptDesc"
    /\ \E line \in Lines :
         /\ desc' = TrimSpace(line)
         /\ stderr' = IF TrimSpace(line) = "" THEN Append(stderr, "description required")
                      ELSE stderr
    /\ asked' = Append(asked, "Description: ")
    /\ pc' = "promptBody"
    /\ UNCHANGED <<rev, cfg, os, ruleFs, scopesFs, rule, scopes, scopesFileName,
                   writeBackScopeHisotry, scopesFound, typ, scope, body,
                   breakingChange, input, prompts, createCalls, created, header, msg, now,
                   flags, wt, stdout, commits, stdin, suggested, genFile,
                   word, call, ret>>

\* the loop of promptBody over the lines standard input still holds
RECURSIVE bodyLoop(_, _, _)
bodyLoop(lines, b, prevEmpty) ==
    IF lines = <<>> THEN b
    ELSE LET line == TrimSpace(Head(lines))
         IN  IF line = "" /\ prevEmpty THEN b
             ELSE bodyLoop(Tail(lines),
                           (IF b # "" THEN b \o "\n" ELSE b) \o line,
                           line = "")

promptBody(Inputs) ==
    /\ pc = "promptBody"
    /\ \E lines \in Inputs :
         /\ stdin' = lines
         /\ body' = bodyLoop(lines, "", FALSE)
    /\ stdout' = Append(stdout, "Body: (Enter 2 empty lines to finish)")
    /\ pc' = "promptBreakingChange"
    /\ UNCHANGED <<rev, cfg, os, ruleFs, scopesFs, rule, scopes, scopesFileName,
                   writeBackScopeHisotry, scopesFound, typ, scope, desc,
                   breakingChange, input, prompts, stderr, createCalls, created, header, msg, now,
                   flags, wt, commits, asked, suggested, genFile,
                   word, call, ret>>

\* promptBreakingChange that asks whatever the rule says
promptBreakingChange_always(Lines) ==
    /\ pc = "promptBreakingChange"
    /\ \E line \in Lines : breakingChange' = TrimSpace(line)
    /\ asked' = Append(asked, "BREAKING CHANGE: ")
    /\ pc' = "writeBack"
    /\ UNCHANGED <<rev, cfg, os, ruleFs, scopesFs, rule, scopes, scopesFileName,
                   writeBackScopeHisotry, scopesFound, typ, scope, desc, body,
                   input, prompts, stderr, createCalls, created, header, msg, now,
                   flags, wt, stdout, commits, stdin, suggested, genFile,
                   word, call, ret>>

promptBreakingChange(Lines) ==
    /\ pc = "promptBreakingChange"
    /\ IF rule.UseBreakingChange
       THEN /\ \E line \in Lines : breakingChange' = TrimSpace(line)
            /\ asked' = Append(asked, "BREAKING CHANGE: ")
       ELSE /\ breakingChange' = ""
            /\ asked' = asked
    /\ pc' = "writeBack"
    /\ UNCHANGED <<rev, cfg, os, ruleFs, scopesFs, rule, scopes, scopesFileName,
                   writeBackScopeHisotry, scopesFound, typ, scope, desc, body,
                   input, prompts, stderr, createCalls, created, header, msg, now,
                   flags, wt, stdout, commits, stdin, suggested, genFile,
                   word, call, ret>>

\* c.scopes[scope] = time.Now()
Put(m, k, v) == [s \in (DOMAIN m) \cup {k} |-> IF s = k THEN v ELSE m[s]]

\* the entries in non-decreasing timestamp order
SortedPairs_ascending(m) ==
    LET D == DOMAIN m
        n == Cardinality(D)
    IN  { [i \in 1..n |-> [scope |-> f[i], ts |-> m[f[i]]]] :
            f \in { g \in [1..n -> D] :
                      /\ \A i, j \in 1..n : i # j => g[i] # g[j]
                      /\ \A i, j \in 1..n : i < j => m[g[i]] <= m[g[j]] } }

\* the outcomes of sort.Slice with less = ts.After over the map's entries:
\* every arrangement with non-increasing timestamps (equal ones in any order)
SortedPairs(m) ==
    LET D == DOMAIN m
        n == Cardinality(D)
    IN  { [i \in 1..n |-> [scope |-> f[i], ts |-> m[f[i]]]] :
            f \in { g \in [1..n -> D] :
                      /\ \A i, j \in 1..n : i # j => g[i] # g[j]
                      /\ \A i, j \in 1..n : i < j => m[g[i]] >= m[g[j]] } }

\* YAML written whatever the name
Marshal_yamlAlways(e, pairs) == File(e, TRUE, FALSE, pairs)

\* the bytes written: JSON for a .json name (always, in the legacy revision),
\* YAML otherwise; JSON text is also accepted by the YAML decoder
Marshal(e, pairs) == File(e, TRUE, rev = "legacy" \/ in(e, {".json"}), pairs)

\* the write-back condition of the revision
wantsWriteBack ==
    /\ scope # ""
    /\ IF rev = "current" THEN scopesFileName # "" ELSE writeBackScopeHisotry

\* buildupCommitMessage: write back scope history
writeBack ==
    /\ pc = "writeBack"
    /\ IF wantsWriteBack
       THEN /\ scopes' = Put(scopes, scope, now)
            /\ \E pairs \in SortedPairs(Put(scopes, scope, now)), createOk, writeOk \in BOOLEAN :
                 LET e == scopesFs[scopesFileName].ext
                 IN  IF createOk
                     THEN /\ created' = Append(created, scopesFileName)
                          /\ createCalls' = Append(createCalls, scopesFileName)
                          /\ scopesFs' = [scopesFs EXCEPT ![scopesFileName] =
                                            IF writeOk THEN Marshal(e, pairs)
                                            ELSE File(e, TRUE, FALSE, <<>>)]
                          /\ stderr' = IF writeOk THEN stderr
                                       ELSE Append(stderr, "WARNING: write scopes")
                     ELSE /\ createCalls' = Append(createCalls, scopesFileName)
                          /\ UNCHANGED <<created, scopesFs, stderr>>
       ELSE UNCHANGED <<scopes, createCalls, created, scopesFs, stderr>>
    /\ pc' = "render"
    /\ UNCHANGED <<rev, cfg, os, ruleFs, rule, scopesFileName, writeBackScopeHisotry,
                   scopesFound, typ, scope, desc, body, breakingChange, input,
                   prompts, header, msg, now,
                   flags, wt, stdout, commits, asked, stdin, suggested, genFile,
                   word, call, ret>>

scopeWithParensOf(sc) == IF sc # "" THEN "(" \o sc \o ")" ELSE ""

bangOf(bc) == IF bc # "" THEN "!" ELSE ""

\* the map handed to templ.Execute
headerData ==
    [ type              |-> typ,
      scope             |-> scope,
      scope_with_parens |-> scopeWithParensOf(scope),
      bang              |-> bangOf(breakingChange),
      emoji             |-> emojiOf(rule, typ, FALSE),
      emoji_unicode     |-> emojiOf(rule, typ, TRUE),
      description       |-> desc ]

\* what is appended to the buffer when templ.Execute reports an error (current)
fallbackHeader(d) == d.type \o d.scope_with_parens \o d.bang \o ": " \o d.description

\* assemble with the footer put before the body
assemble_footerFirst(h, b, bc) ==
    h \o (IF bc # "" THEN "\nBREAKING CHANGE: " \o bc ELSE "")
      \o (IF b # "" THEN "\n\n" \o b ELSE "")

\* header, then body and BREAKING CHANGE footer
assemble(h, b, bc) ==
    h \o (IF b # "" THEN "\n\n" \o b ELSE "")
      \o (IF bc # "" THEN "\nBREAKING CHANGE: " \o bc ELSE "")

\* buildupCommitMessage: header and message.  template.Must panics on a
\* format that does not parse
render ==
    /\ pc = "render"
    /\ LET t == Parse(rule.HeaderFormat)
       IN  IF ~t.ok
           THEN /\ pc' = "panic"
                /\ UNCHANGED <<stderr, header, msg>>
           ELSE LET x == Execute(t.nodes, headerData)
                    h == IF x.err /\ rev = "current"
                         THEN x.out \o fallbackHeader(headerData)
                         ELSE x.out
                IN  /\ stderr' = IF x.err /\ rev = "current"
                                 THEN Append(stderr, "template: " \o rule.HeaderFormat)
                                 ELSE stderr
                    /\ header' = h
                    /\ msg' = assemble(h, body, breakingChange)
                    /\ pc' = "built"
    /\ UNCHANGED <<rev, cfg, os, ruleFs, scopesFs, rule, scopes, scopesFileName,
                   writeBackScopeHisotry, scopesFound, typ, scope, desc, body,
                   breakingChange, input, prompts, createCalls, created, now,
                   flags, wt, stdout, commits, asked, stdin, suggested, genFile,
                   word, call, ret>>

-----------------------------------------------------------------------------
(* Initial states *)

InitLocals ==
    /\ typ = "" /\ scope = "" /\ desc = "" /\ body = "" /\ breakingChange = ""
    /\ input = "" /\ prompts = 0 /\ stderr = <<>>
    /\ stdout = <<>> /\ commits = <<>> /\ asked = <<>> /\ stdin = <<>>
    /\ suggested = <<>> /\ genFile = NoFile(".json")
    /\ word = ""
    /\ ret = <<>>
    /\ createCalls = <<>> /\ created = <<>>
    /\ header = "" /\ msg = ""

InitUnprepared ==
    /\ pc = "start"
    /\ call = <<>>
    /\ rule = nilRule
    /\ scopes = <<>>
    /\ scopesFileName = ""
    /\ writeBackScopeHisotry = FALSE
    /\ scopesFound = ""

\* a plain run (no --all, no --debug) with something staged
InitStaged ==
    /\ flags = [All |-> FALSE, Debug |-> FALSE]
    /\ wt = [staged |-> TRUE, dirty |-> FALSE]

NoFiles == [l \in Locations |-> NoFile(".json")]

\* a location holds a file only when its directory is known: the override
\* location needs the gitconfig key, the user and executable locations need
\* os.UserConfigDir and os.Executable to succeed, and the working-directory
\* location is only ever named when os.Executable fails.  The finder of the
\* current revision is taken with both directories known
EnvOk(fs, cfgSet) ==
    /\ rev = "current" => os.user /\ os.exe
    /\ fs["exact"].present => cfgSet
    /\ fs["user"].present => os.user
    /\ fs["exe"].present => os.exe
    /\ fs["cwd"].present => ~os.exe

\* the rule a user keeps at a location
TierRule(l) ==
    [ defaultRule(FALSE) EXCEPT !.Types = << commitTypeAsOM(l, "rule at " \o l, "") >> ]

RuleFileOf(l, k) ==
    IF k = "absent" THEN NoFile(".json")
    ELSE IF k = "garbage" THEN File(".json", FALSE, FALSE, nilRule)
    ELSE File(".json", TRUE, TRUE, TierRule(l))

NowTs == 5

InitRule ==
    /\ rev \in {"current", "legacy"}
    /\ cfg \in [rule : BOOLEAN, scopes : {FALSE}]
    /\ os \in [user : BOOLEAN, exe : BOOLEAN]
    /\ ruleFs \in { [l \in Locations |-> RuleFileOf(l, k[l])] :
                      k \in [Locations -> {"absent", "garbage", "valid"}] }
    /\ EnvOk(ruleFs, cfg.rule)
    /\ scopesFs = NoFiles
    /\ now = NowTs
    /\ InitUnprepared
    /\ InitStaged
    /\ InitLocals

NextRule == runStart \/ prepare \/ prepare_legacy

SpecRule == InitRule /\ [][NextRule]_vars

-----------------------------------------------------------------------------
(* Properties of rule-file resolution *)

Prepared == pc \notin {"start", "prepare"}

Decodable(f) == f.present /\ f.yamlOk /\ f.jsonOk

Undecodable(f) == f.present /\ ~f.yamlOk /\ ~f.jsonOk

TierOrder == <<"exact", "root", "user", "exe">>

\* the highest-priority tier holding a file, or ""
TopTier(fs) ==
    IF \E i \in 1..4 : fs[TierOrder[i]].present
    THEN TierOrder[CHOOSE i \in 1..4 :
                     /\ fs[TierOrder[i]].present
                     /\ \A j \in 1..(i - 1) : ~fs[TierOrder[j]].present]
    ELSE ""

DefaultOfRev == IF rev = "current" THEN defaultRule(FALSE) ELSE legacyDefaultRule

\* C1: when every file present is parseable, the rule used is the one of the
\* highest-priority tier holding a file (override, worktree root, user
\* configuration directory, executable directory), the default when none does
C1_RuleCascadeOrder ==
    ( /\ Prepared
      /\ \A l \in Locations : ruleFs[l].present => Decodable(ruleFs[l])
      /\ ~ruleFs["cwd"].present )
    => rule = IF TopTier(ruleFs) = "" THEN DefaultOfRev ELSE ruleFs[TopTier(ruleFs)].val

\* C2 as stated: when the highest-priority existing rule file fails to
\* decode, the default rule is used, whatever lower tiers hold
C2_DecodeFailureIsTerminal ==
    ( /\ Prepared
      /\ TopTier(ruleFs) # ""
      /\ Undecodable(ruleFs[TopTier(ruleFs)])
      /\ ~ruleFs["cwd"].present )
    => rule = DefaultOfRev

\* C2 amended: in the current revision a decode failure of the
\* highest-priority existing rule file gives the default rule; the legacy
\* revision skips a file that fails to decode and uses the next of the
\* override, root and user tiers that decodes
C2_DecodeFailureByRevision ==
    Prepared =>
      /\ ( rev = "current" /\ TopTier(ruleFs) # "" /\ Undecodable(ruleFs[TopTier(ruleFs)]) )
            => rule = defaultRule(FALSE)
      /\ \A i \in 1..3 :
           ( /\ rev = "legacy"
             /\ Decodable(ruleFs[TierOrder[i]])
             /\ \A j \in 1..(i - 1) : ~Decodable(ruleFs[TierOrder[j]])
             /\ \E j \in 1..(i - 1) : Undecodable(ruleFs[TierOrder[j]]) )
            => rule = ruleFs[TierOrder[i]].val

\* C2 witness: the override file is garbage, the root file is valid, and the
\* current revision has resolved to the default rule
C2_Witness ==
    /\ Prepared
    /\ rev = "current"
    /\ Undecodable(ruleFs["exact"])
    /\ Decodable(ruleFs["root"])
    /\ rule = defaultRule(FALSE)

-----------------------------------------------------------------------------
(* Scope-history resolution and write-back *)

\* the history a user keeps at a location, most recent first
History(l) == << [scope |-> "api", ts |-> 3], [scope |-> l, ts |-> 1] >>

ScopesFileOf(l, k) ==
    IF k = "absent" THEN NoFile(".json")
    ELSE IF k = "garbage" THEN File(".json", FALSE, FALSE, <<>>)
    ELSE File(".json", TRUE, TRUE, History(l))

\* the clock may read earlier than, the same as, or later than the
\* timestamps a history file holds
ClockReadings == {2, 3, NowTs}

InitScopes ==
    /\ rev \in {"current", "legacy"}
    /\ cfg \in [rule : {FALSE}, scopes : BOOLEAN]
    /\ os \in [user : BOOLEAN, exe : BOOLEAN]
    /\ scopesFs \in { [l \in Locations |-> ScopesFileOf(l, k[l])] :
                        k \in [Locations -> {"absent", "garbage", "valid"}] }
    /\ EnvOk(scopesFs, cfg.scopes)
    /\ ~scopesFs["cwd"].present
    /\ ruleFs = NoFiles
    /\ now \in ClockReadings
    /\ InitUnprepared
    /\ InitStaged
    /\ InitLocals

ScopeLines == {"", "api", "cli"}

NextScopes ==
    \/ runStart
    \/ prepare
    \/ prepare_legacy
    \/ promptType({"feat"})
    \/ promptScope(ScopeLines)
    \/ promptDesc({"new feature hoge!"})
    \/ promptBody({<<>>})
    \/ promptBreakingChange({""})
    \/ writeBack
    \/ render

SpecScopes == InitScopes /\ [][NextScopes]_vars

\* the write-back step of buildupCommitMessage is over
WriteBackDone == pc \in {"render", "built", "panic"}

SeqRange(q) == {q[i] : i \in 1..Len(q)}

\* C3: when no tier yielded a scope history, no scope-history file is created
\* or overwritten in the run, whatever scope is chosen (the fallback path is
\* not a write target)
C3_NoHistoryNoWrite ==
    (Prepared /\ scopesFound = "") => created = <<>>

\* C4: no scope-history file is ever created or overwritten in the per-user
\* configuration directory or in the executable's directory
C4_ReadOnlyTiersNeverWritten ==
    SeqRange(created) \cap {"user", "exe"} = {}

\* C5: when the history was loaded from the override path or from the
\* worktree root and a non-empty scope is chosen, the write-back overwrites
\* the file the history was loaded from
C5_WriteBackToLoadedFile ==
    (WriteBackDone /\ scopesFound \in {"exact", "root"} /\ scope # "")
    => createCalls = <<scopesFound>>

-----------------------------------------------------------------------------
(* The type prompt *)

\* the run finds the rule r in the worktree root and no scope history
InitWithRule(r) ==
    /\ rev \in {"current", "legacy"}
    /\ cfg = [rule |-> FALSE, scopes |-> FALSE]
    /\ os = [user |-> TRUE, exe |-> TRUE]
    /\ ruleFs = [NoFiles EXCEPT !["root"] = File(".json", TRUE, TRUE, r)]
    /\ scopesFs = NoFiles
    /\ now = NowTs
    /\ InitUnprepared
    /\ InitStaged
    /\ InitLocals

\* a registry with a comment entry and an entry without description
SmallTypes ==
    << commitTypeAsOM("# note", "comment starts with #", ""),
       commitTypeAsOM("feat", "A new feature", ":sparkles:"),
       commitTypeAsOM("fix", "A bug fix", ":bug:"),
       commitTypeAsOM("misc", "", "") >>

TypeRules ==
    { [ Types |-> SmallTypes, DenyEmptyType |-> e, DenyAdlibType |-> a,
        UseBreakingChange |-> FALSE, HeaderFormat |-> DefaultHeaderFormat ] :
        e, a \in BOOLEAN }

TypeLines == {"", "feat", "fix", "wip", "# note", "misc"}

InitType == \E r \in TypeRules : InitWithRule(r)

NextType ==
    \/ runStart
    \/ prepare
    \/ prepare_legacy
    \/ promptType(TypeLines)

SpecType == InitType /\ [][NextType]_vars

\* the loop of promptType has returned
Accepted == pc \notin {"start", "prepare", "promptType"}

\* a step that submits a line at the type prompt
Submits == pc = "promptType" /\ prompts' = prompts + 1

\* C6: with denyAdlibType set the loop returns only a registry key; a
\* non-empty submission that is not a key is answered by the diagnostic and
\* another prompt, and a submitted key is accepted
C6_AdlibRejected ==
    /\ [](Accepted /\ rule.DenyAdlibType => Found(rule.Types, typ))
    /\ [][ (Submits /\ rule.DenyAdlibType /\ input' # "")
           => IF Found(rule.Types, input')
              THEN pc' = "promptScope" /\ typ' = input' /\ stderr' = stderr
              ELSE /\ pc' = "promptType"
                   /\ stderr' = Append(stderr, "ad-lib type is not allowed") ]_vars

\* C6 witness: two ad-lib submissions were rejected, the third line was a key
C6_Witness ==
    /\ rule.DenyAdlibType
    /\ pc = "promptScope"
    /\ prompts = 3
    /\ stderr = <<"ad-lib type is not allowed", "ad-lib type is not allowed">>
    /\ typ = "fix"

\* C7: with denyEmptyType set an empty submission is answered by the
\* diagnostic and another prompt, and the loop never returns the empty string
C7_EmptyRejected ==
    /\ [](Accepted /\ rule.DenyEmptyType => typ # "")
    /\ [][ (Submits /\ rule.DenyEmptyType /\ input' = "")
           => /\ pc' = "promptType"
              /\ stderr' = Append(stderr, "type is required") ]_vars

\* C7 witness: an empty line was refused and the prompt is up again
C7_Witness ==
    /\ rule.DenyEmptyType
    /\ pc = "promptType"
    /\ prompts = 2
    /\ input = ""
    /\ stderr = <<"type is required", "type is required">>

\* C8: a submission that neither rule rejects is accepted on the spot: an
\* empty line when denyEmptyType is unset, an unregistered line when
\* denyAdlibType is unset
C8_AcceptedAtOnce ==
    [][ ( /\ Submits
          /\ \/ input' = "" /\ ~rule.DenyEmptyType
             \/ input' # "" /\ ~rule.DenyAdlibType )
        => pc' = "promptScope" /\ typ' = input' ]_vars

\* a warning about the scope-history write is on the error stream
WriteWarned == \E i \in 1..Len(stderr) : HasPrefix(stderr[i], "WARNING: ")

\* C15: a write-back serialises the whole map: every scope that was loaded,
\* with its timestamp, and the chosen scope with the time of the write, in
\* non-increasing timestamp order; when that time is later than every other
\* entry's, the chosen scope comes first
C15_WriteBackWholeMapSorted ==
    [][ (pc = "writeBack" /\ created' # created /\ stderr' = stderr)
        => LET w == scopesFs'[scopesFileName].val
               D == (DOMAIN scopes) \cup {scope}
           IN  /\ Len(w) = Cardinality(D)
               /\ {w[i].scope : i \in 1..Len(w)} = D
               /\ \A i \in 1..Len(w) :
                    w[i].ts = IF w[i].scope = scope THEN now ELSE scopes[w[i].scope]
               /\ \A i, j \in 1..Len(w) : i < j => w[i].ts >= w[j].ts
               /\ (\A s \in (DOMAIN scopes) \ {scope} : now > scopes[s])
                  => w[1].scope = scope ]_vars

C15_Witness ==
    /\ pc = "render"
    /\ created # <<>>
    /\ ~WriteWarned
    /\ scope = "cli"
    /\ now = NowTs
    /\ LET w == scopesFs[scopesFileName].val
       IN  /\ Len(w) = 3
           /\ w[1] = [scope |-> "cli", ts |-> NowTs]
           /\ w[2] = [scope |-> "api", ts |-> 3]
           /\ w[3].ts = 1

\* C17: every failure to persist the scope history, whether the file cannot
\* be created or the write to it fails, is reported by a warning on the error
\* stream, and the assembly goes on to render the message
C17_PersistFailureWarned ==
    [][ ( /\ pc = "writeBack"
          /\ createCalls' # createCalls
          /\ \/ created' = created
             \/ scopesFs'[scopesFileName].val = <<>> )
        => /\ Len(stderr') = Len(stderr) + 1
           /\ HasPrefix(stderr'[Len(stderr')], "WARNING: ")
           /\ pc' = "render" ]_vars

-----------------------------------------------------------------------------
(* Scope-history formats: an override path of any extension *)

FormatExts == {".json", ".yaml", ".yml", ""}

\* the override file: undecodable, YAML, or JSON (which the YAML decoder
\* accepts too)
ScopesFileIn(e, k) ==
    IF k = "garbage" THEN File(e, FALSE, FALSE, <<>>)
    ELSE IF k = "yaml" THEN File(e, TRUE, FALSE, History("exact"))
    ELSE File(e, TRUE, TRUE, History("exact"))

InitFormat ==
    /\ rev \in {"current", "legacy"}
    /\ cfg = [rule |-> FALSE, scopes |-> TRUE]
    /\ os = [user |-> TRUE, exe |-> TRUE]
    /\ \E e \in FormatExts, k \in {"garbage", "yaml", "json"} :
         scopesFs = [NoFiles EXCEPT !["exact"] = ScopesFileIn(e, k)]
    /\ ruleFs = NoFiles
    /\ now \in ClockReadings
    /\ InitUnprepared
    /\ InitStaged
    /\ InitLocals

NextFormat ==
    \/ runStart
    \/ prepare
    \/ prepare_legacy
    \/ promptType({"feat"})
    \/ promptScope(ScopeLines)
    \/ promptDesc({"new feature hoge!"})
    \/ promptBody({<<>>})
    \/ promptBreakingChange({""})
    \/ writeBack
    \/ render

SpecFormat == InitFormat /\ [][NextFormat]_vars

\* reading a scope-history file as the running revision reads it
readBack(f) ==
    IF rev = "current" THEN tryReadScopesFile(f) ELSE legacyTryReadScopesFile(f)

\* C16: a scope history written to a write-back path and read back from that
\* path gives the same (scope, timestamp) pairs, whether the path ends in
\* .json, in .yaml / .yml, or in no recognised extension
C16_RoundTrip ==
    [][ (pc = "writeBack" /\ created' # created /\ stderr' = stderr)
        => LET r == readBack(scopesFs'[scopesFileName])
           IN  ~r.err /\ r.sc = scopes' ]_vars

C16_Witness ==
    /\ pc = "render"
    /\ rev = "current"
    /\ created = <<"exact">>
    /\ ~WriteWarned
    /\ scopesFs["exact"].ext = ""
    /\ Cardinality(DOMAIN scopes) = 3
    /\ ~tryReadScopesFile(scopesFs["exact"]).err
    /\ tryReadScopesFile(scopesFs["exact"]).sc = scopes

-----------------------------------------------------------------------------
(* Header rendering and message assembly *)

HeaderFormats ==
    { DefaultHeaderFormat,
      "{{.type}}: {{.description",
      "{{type}}: {{description}}",
      "{{.type.name}}",
      "[{{.scope}}] {{.emoji.x}}",
      "{{.emoji_unicode}} {{.type}}" }

HeaderRules ==
    { [ Types |-> defaultCommitTypes(TRUE), DenyEmptyType |-> FALSE,
        DenyAdlibType |-> FALSE, UseBreakingChange |-> u, HeaderFormat |-> f ] :
        u \in BOOLEAN, f \in HeaderFormats }

InitHeader == \E r \in HeaderRules : InitWithRule(r)

NextHeader ==
    \/ runStart
    \/ prepare
    \/ prepare_legacy
    \/ promptType({"feat", "wip"})
    \/ promptScope({"", "hoge"})
    \/ promptDesc({"new feature hoge!", " "})
    \/ promptBody({<<>>, <<"dummy text", "", "">>})
    \/ promptBreakingChange({"", " ", "removes old API"})
    \/ writeBack
    \/ render

SpecHeader == InitHeader /\ [][NextHeader]_vars

\* the header the fallback is specified to give
FixedHeader ==
    typ \o scopeWithParensOf(scope) \o bangOf(breakingChange) \o ": "
        \o emojiOf(rule, typ, TRUE) \o desc

\* buildupCommitMessage is over: it returned or it panicked
Ended == pc \in {"built", "panic"}

\* the diagnostic of the template failure is on the error stream
TemplateDiagnosed == \E i \in 1..Len(stderr) : HasPrefix(stderr[i], "template: ")

\* C9: with a header format that is not a syntactically valid template,
\* message assembly does not abort: it writes a diagnostic and returns a
\* message whose header is the fixed fallback rendering
C9_InvalidTemplateFallsBack ==
    (Ended /\ ~Parse(rule.HeaderFormat).ok)
    => pc = "built" /\ TemplateDiagnosed /\ header = FixedHeader

\* C10: when rendering the header template fails (current revision), the
\* header is exactly type, scope_with_parens, bang, ": ", emoji_unicode,
\* description: the glyph is there and nothing precedes the type
C10_FallbackHeaderExact ==
    ( /\ pc = "built"
      /\ rev = "current"
      /\ Parse(rule.HeaderFormat).ok
      /\ Execute(Parse(rule.HeaderFormat).nodes, headerData).err )
    => header = FixedHeader

\* the glyph of the chosen type's shortcode, without surrounding blanks; empty
\* for a type the registry does not hold
GlyphOfType ==
    IF Found(rule.Types, typ)
    THEN LET e == Get(rule.Types, typ).Emoji
         IN  IF e \in DOMAIN Glyph THEN Glyph[e] ELSE TrimSpace(e)
    ELSE ""

\* C11: with the default header format the header is the type, the scope in
\* parentheses (nothing for an empty scope), "!" when there is a
\* breaking-change text, ": ", the trimmed glyph of the type (nothing for an
\* unregistered type) and the description; feat / hoge / "new feature hoge!"
\* gives "feat(hoge): " + glyph + "new feature hoge!"
C11_DefaultHeader ==
    (pc = "built" /\ rule.HeaderFormat = DefaultHeaderFormat)
    => /\ header = typ \o (IF scope = "" THEN "" ELSE "(" \o scope \o ")")
                       \o (IF breakingChange = "" THEN "" ELSE "!")
                       \o ": " \o GlyphOfType \o desc
       /\ ( typ = "feat" /\ scope = "hoge" /\ desc = "new feature hoge!"
            /\ breakingChange = "" )
          => header = "feat(hoge): <sparkles>new feature hoge!"

C11_Witness ==
    /\ pc = "built"
    /\ rule.HeaderFormat = DefaultHeaderFormat
    /\ typ = "feat" /\ scope = "hoge" /\ desc = "new feature hoge!"
    /\ breakingChange = ""
    /\ header = "feat(hoge): <sparkles>new feature hoge!"

\* C12: the message is the header, followed by a blank line and the body
\* exactly when the body is non-empty, followed by the BREAKING CHANGE line
\* exactly when the breaking-change text is non-empty
C12_MessageAssembly ==
    pc = "built"
    => /\ (body = "" /\ breakingChange = "") => msg = header
       /\ (body # "" /\ breakingChange = "") => msg = header \o "\n\n" \o body
       /\ (body = "" /\ breakingChange # "")
          => msg = header \o "\nBREAKING CHANGE: " \o breakingChange
       /\ (body # "" /\ breakingChange # "")
          => msg = header \o "\n\n" \o body \o "\nBREAKING CHANGE: " \o breakingChange

C12_Witness ==
    /\ pc = "built"
    /\ header # "" /\ body # "" /\ breakingChange = "removes old API"
    /\ msg = header \o "\n\n" \o body \o "\nBREAKING CHANGE: removes old API"

\* a prompt with this prefix has been issued
Asked(prefix) == \E i \in 1..Len(asked) : asked[i] = prefix

EndsWith(s, x) == Len(s) >= Len(x) /\ SubSeq(s, Len(s) - Len(x) + 1, Len(s)) = x

AfterBreakingChange == pc \in {"writeBack", "render", "built", "panic"}

\* C14: the breaking-change prompt is issued exactly when useBreakingChange
\* is set; the header (default format) carries "!" after the scope exactly
\* when the trimmed text is non-empty, and the message ends with the
\* BREAKING CHANGE line exactly then; without useBreakingChange there is
\* neither bang nor footer
C14_BreakingChange ==
    /\ Asked("BREAKING CHANGE: ") <=> (AfterBreakingChange /\ rule.UseBreakingChange)
    /\ (AfterBreakingChange /\ ~rule.UseBreakingChange) => breakingChange = ""
    /\ (pc = "built" /\ rule.HeaderFormat = DefaultHeaderFormat)
       => LET upToBang == typ \o (IF scope = "" THEN "" ELSE "(" \o scope \o ")")
          IN  IF breakingChange # ""
              THEN HasPrefix(header, upToBang \o "!: ")
              ELSE HasPrefix(header, upToBang \o ": ")
    /\ pc = "built"
       => IF breakingChange # ""
          THEN EndsWith(msg, "\nBREAKING CHANGE: " \o breakingChange)
          ELSE Index(msg, "BREAKING CHANGE: ", 1) = 0

C14_Witness ==
    /\ pc = "built"
    /\ rule.UseBreakingChange
    /\ rule.HeaderFormat = DefaultHeaderFormat
    /\ Asked("BREAKING CHANGE: ")
    /\ breakingChange = "removes old API"
    /\ HasPrefix(header, "feat(hoge)!: ")
    /\ EndsWith(msg, "\nBREAKING CHANGE: removes old API")

-----------------------------------------------------------------------------
(* Body collection *)

MaxBodyLines == 4

BodyLineSet == {"", "dummy text", " x "}

\* what standard input may hold when the body is read: up to MaxBodyLines
\* lines, then end of input
BodyInputs == UNION { [1..n -> BodyLineSet] : n \in 0..MaxBodyLines }

InitBody ==
    InitWithRule([ defaultRule(TRUE) EXCEPT !.UseBreakingChange = TRUE ])

NextBody ==
    \/ runStart
    \/ prepare
    \/ prepare_legacy
    \/ promptType({"feat"})
    \/ promptScope({""})
    \/ promptDesc({"new feature hoge!"})
    \/ promptBody(BodyInputs)

SpecBody == InitBody /\ [][NextBody]_vars

BlankLine(l) == TrimSpace(l) = ""

\* the lines before the first two consecutive blank lines; every line when
\* the input ends without such a pair
RECURSIVE BeforeBlankPair(_)
BeforeBlankPair(lines) ==
    IF lines = <<>> THEN <<>>
    ELSE IF Len(lines) >= 2 /\ BlankLine(lines[1]) /\ BlankLine(lines[2]) THEN <<>>
    ELSE <<Head(lines)>> \o BeforeBlankPair(Tail(lines))

RECURSIVE JoinLines(_)
JoinLines(lines) ==
    IF lines = <<>> THEN ""
    ELSE IF Len(lines) = 1 THEN TrimSpace(lines[1])
    ELSE TrimSpace(lines[1]) \o "\n" \o JoinLines(Tail(lines))

\* C13: the body is the newline-join of the lines read before the two
\* consecutive blank lines that end the collection (or before the end of
\* input); neither terminating blank line is part of it ("dummy text", "",
\* "" gives "dummy text").  Stated for input that starts with text, where
\* the join is not in question
C13_BodyExcludesTerminators ==
    (pc = "promptBreakingChange" /\ stdin # <<>> /\ ~BlankLine(stdin[1]))
    => body = JoinLines(BeforeBlankPair(stdin))

-----------------------------------------------------------------------------
(* The whole run: flags, staging, assembly, then print or commit *)

InitRun ==
    /\ rev \in {"current", "legacy"}
    /\ flags \in [All : BOOLEAN, Debug : BOOLEAN]
    /\ wt \in [staged : BOOLEAN, dirty : BOOLEAN]
    /\ cfg \in [rule : BOOLEAN, scopes : BOOLEAN]
    /\ os = [user |-> TRUE, exe |-> TRUE]
    /\ ruleFs \in { [NoFiles EXCEPT !["exact"] = NoFile(e)] : e \in FormatExts }
    /\ ~cfg.rule => ruleFs = NoFiles
    /\ scopesFs \in { NoFiles,
                      [NoFiles EXCEPT !["exact"] = ScopesFileOf("exact", "valid")],
                      [NoFiles EXCEPT !["root"] = ScopesFileOf("root", "valid")] }
    /\ EnvOk(scopesFs, cfg.scopes)
    /\ now = NowTs
    /\ InitUnprepared
    /\ InitLocals

NextRun ==
    \/ gen({"root", "exact"})
    \/ runStart
    \/ prepare
    \/ prepare_legacy
    \/ promptType({"feat"})
    \/ promptScope({"", "api"})
    \/ promptDesc({"new feature hoge!"})
    \/ promptBody({<<>>, <<"dummy text", "", "">>})
    \/ promptBreakingChange({""})
    \/ writeBack
    \/ render
    \/ runEnd

SpecRun == InitRun /\ [][NextRun]_vars

\* Run has returned
Returned == pc \in {"done", "failed"}

\* C18: the scope-history file is written at most once in an invocation, and
\* the write never precedes the commit: it is the end of a successful run, so
\* a run whose commit fails, or that makes no commit, leaves the file as it
\* was.  The order is stated for a history that was loaded and a write that
\* succeeded
C18_WriteOnlyAfterCommit ==
    /\ Len(created) <= 1
    /\ (scopesFound # "" /\ ~WriteWarned /\ created # <<>>) => commits # <<>>
    /\ (Returned /\ commits = <<>>) => created = <<>>

\* C19: under --debug nothing is staged and nothing is committed, and the
\* run ends by printing the assembled message and returning success, whether
\* or not anything was staged
C19_DebugPrintsOnly ==
    /\ [][ flags.Debug => (wt' = wt /\ commits' = commits) ]_vars
    /\ []( (flags.Debug /\ pc \in {"done", "failed", "panic"})
           => /\ pc = "done"
              /\ msg # ""
              /\ SubSeq(stdout, Len(stdout) - 1, Len(stdout)) = <<"----------", msg>> )

C19_Witness ==
    /\ flags = [All |-> TRUE, Debug |-> TRUE]
    /\ wt = [staged |-> FALSE, dirty |-> TRUE]
    /\ pc = "done"
    /\ commits = <<>>
    /\ msg = header \o "\n\n" \o body
    /\ stdout = <<"Body: (Enter 2 empty lines to finish)", "----------", msg>>

\* C20: no registry key that starts with "#" is among the type suggestions,
\* while serialising the registry keeps every such comment entry at its
\* position: the generated default rule file lists "# comment1" and
\* "# comment2" first, in that order, before feat
C20_CommentKeys ==
    /\ \A i \in 1..Len(suggested) : ~HasPrefix(suggested[i].Text, "#")
    /\ genFile.present
       => LET t   == genFile.val.Types
              reg == legacyDefaultCommitTypes
          IN  /\ Len(t) = Len(reg)
              /\ \A i \in 1..Len(reg) : HasPrefix(reg[i].key, "#") => t[i] = reg[i]
              /\ t[1].key = "# comment1" /\ t[2].key = "# comment2" /\ t[3].key = "feat"

\* a run that read the generated file: the comments lead the registry and
\* the suggestions start at feat
C20_Witness ==
    /\ pc = "promptScope"
    /\ genFile.present
    /\ rule = genFile.val
    /\ Keys(rule.Types)[1] = "# comment1"
    /\ Keys(rule.Types)[2] = "# comment2"
    /\ Len(suggested) = Len(rule.Types) - 2
    /\ suggested[1].Text = "feat"

-----------------------------------------------------------------------------
(* Type suggestions while a word is typed *)

\* the built-in registry without emoji, with and without denyAdlibType
SuggestRules ==
    { [ defaultRule(FALSE) EXCEPT !.DenyAdlibType = a ] : a \in BOOLEAN }

SuggestWords == {"", "bg", "FX", "f", "re", "ix", "zz"}

InitSuggest == \E r \in SuggestRules : InitWithRule(r)

NextSuggest ==
    \/ runStart
    \/ prepare
    \/ prepare_legacy
    \/ typeWord(SuggestWords)
    \/ promptType({"", "fix", "wip"})

SpecSuggest == InitSuggest /\ [][NextSuggest]_vars

\* sub is a subsequence of s: its characters occur in s in the same order,
\* each at a place of its own
IsSubsequence(sub, s) ==
    \E f \in [1..Len(sub) -> 1..Len(s)] :
        /\ \A i, j \in 1..Len(sub) : i < j => f[i] < f[j]
        /\ \A i \in 1..Len(sub) : SubSeq(s, f[i], f[i]) = SubSeq(sub, i, i)

Texts(items) == {items[i].Text : i \in 1..Len(items)}

\* the registry entries that can be suggested at all
Candidates(r) ==
    {k \in KeySet(r.Types) : ~HasPrefix(k, "#") /\ Get(r.Types, k).Desc # ""}

\* C21: at the type prompt a candidate is suggested exactly when the typed
\* word is, letter case ignored, a subsequence of its key or of its
\* description: "bg" suggests fix and not feat, "FX" suggests fix
C21_FuzzySuggestions ==
    (pc = "promptType" /\ word # "")
    => /\ \A k \in Candidates(rule) :
            k \in Texts(suggested)
            <=> \/ IsSubsequence(ToUpper(word), ToUpper(k))
                \/ IsSubsequence(ToUpper(word), ToUpper(Get(rule.Types, k).Desc))
       /\ word = "bg" => ("fix" \in Texts(suggested) /\ "feat" \notin Texts(suggested))
       /\ word = "FX" => "fix" \in Texts(suggested)

-----------------------------------------------------------------------------
(* The matching functions called on their own *)

MaxLen == 3

MaxItems == 3

\* the strings over a and b of up to MaxLen characters
RECURSIVE StringsUpTo(_)
StringsUpTo(n) ==
    IF n = 0 THEN {""}
    ELSE StringsUpTo(n - 1) \cup {x \o c : x \in StringsUpTo(n - 1), c \in {"a", "b"}}

SomeSuggestions ==
    { [Text |-> "ab", Description |-> ""],
      [Text |-> "ba", Description |-> "A b"],
      [Text |-> "b", Description |-> "Ba"],
      [Text |-> "", Description |-> "a"] }

ItemLists == UNION { [1..n -> SomeSuggestions] : n \in 0..MaxItems }

Calls ==
    { [fn |-> "fuzzyMatch", s |-> x, sub |-> y, items |-> <<>>, ignoreCase |-> FALSE] :
        x, y \in StringsUpTo(MaxLen) }
    \cup
    { [fn |-> "filterSuggestions", s |-> "", sub |-> y, items |-> l, ignoreCase |-> c] :
        y \in {"", "a", "ab", "B"}, l \in ItemLists, c \in BOOLEAN }

InitMatch ==
    /\ rev \in {"current", "legacy"}
    /\ pc = "call"
    /\ call \in Calls
    /\ cfg = [rule |-> FALSE, scopes |-> FALSE]
    /\ os = [user |-> TRUE, exe |-> TRUE]
    /\ ruleFs = NoFiles
    /\ scopesFs = NoFiles
    /\ now = NowTs
    /\ rule = nilRule
    /\ scopes = <<>>
    /\ scopesFileName = ""
    /\ writeBackScopeHisotry = FALSE
    /\ scopesFound = ""
    /\ InitStaged
    /\ InitLocals

NextMatch == callFuzzyMatch \/ callFilterSuggestions

SpecMatch == InitMatch /\ [][NextMatch]_vars

\* what filterSuggestions is to keep of a list, for fuzzyMatch
Kept(items, sub, ignoreCase) ==
    LET fold(x) == IF ignoreCase THEN ToUpper(x) ELSE x
    IN  { i \in 1..Len(items) :
            \/ IsSubsequence(fold(sub), fold(items[i].Text))
            \/ IsSubsequence(fold(sub), fold(items[i].Description)) }

\* C22: fuzzyMatch(s, sub) is true exactly when sub is a subsequence of s;
\* filterSuggestions returns the list unchanged for an empty query and
\* otherwise the kept candidates, each once, in their input order
C22_MatchAndFilter ==
    pc = "returned"
    => /\ call.fn = "fuzzyMatch" => (ret <=> IsSubsequence(call.sub, call.s))
       /\ (call.fn = "filterSuggestions" /\ call.sub = "") => ret = call.items
       /\ (call.fn = "filterSuggestions" /\ call.sub # "")
          => LET K == Kept(call.items, call.sub, call.ignoreCase)
             IN  /\ Len(ret) = Cardinality(K)
                 /\ \E g \in [1..Len(ret) -> K] :
                      /\ \A i, j \in 1..Len(ret) : i < j => g[i] < g[j]
                      /\ \A i \in 1..Len(ret) : ret[i] = call.items[g[i]]

C22_Witness ==
    /\ pc = "returned"
    /\ call.fn = "fuzzyMatch"
    /\ call.s = "aba"
    /\ call.sub = "aa"
    /\ ret = TRUE

-----------------------------------------------------------------------------
(* Reading override files of any extension and content *)

ReadExts == {".yaml", ".yml", ".YML", ".json", ".JSON", ".txt", ""}

YamlRule == TierRule("yaml")

JsonRule == TierRule("json")

YamlHistory == << [scope |-> "yaml", ts |-> 1] >>

JsonHistory == << [scope |-> "json", ts |-> 1] >>

InitRead ==
    /\ rev \in {"current", "legacy"}
    /\ cfg = [rule |-> TRUE, scopes |-> TRUE]
    /\ os = [user |-> TRUE, exe |-> TRUE]
    /\ \E e \in ReadExts, y, j \in BOOLEAN :
         ruleFs = [NoFiles EXCEPT !["exact"] = FileAs(e, y, j, YamlRule, JsonRule)]
    /\ \E e \in ReadExts, y, j \in BOOLEAN :
         scopesFs = [NoFiles EXCEPT !["exact"] = FileAs(e, y, j, YamlHistory, JsonHistory)]
    /\ now = NowTs
    /\ InitUnprepared
    /\ InitStaged
    /\ InitLocals

NextRead == runStart \/ prepare \/ prepare_legacy

SpecRead == InitRead /\ [][NextRead]_vars

IsYamlExt(e) == ToUpper(e) \in {".YAML", ".YML"}

IsJsonExt(e) == ToUpper(e) = ".JSON"

\* C23: in the current revision a .yaml / .yml file is decoded as YAML only
\* and a .json file as JSON only, a decode failure being an error with no
\* retry in the other format; a file of any other extension is decoded as
\* YAML, as JSON only when the YAML decoding fails, and is unreadable only
\* when both fail.  An unreadable rule file leaves the built-in rule, an
\* unreadable scope history leaves no history
C23_FormatDispatch ==
    (rev = "current" /\ Prepared)
    => LET rf == ruleFs["exact"]
           sf == scopesFs["exact"]
       IN  /\ IsYamlExt(rf.ext)
              => rule = IF rf.yamlOk THEN rf.val ELSE defaultRule(FALSE)
           /\ IsJsonExt(rf.ext)
              => rule = IF rf.jsonOk THEN rf.jval ELSE defaultRule(FALSE)
           /\ (~IsYamlExt(rf.ext) /\ ~IsJsonExt(rf.ext))
              => rule = IF rf.yamlOk THEN rf.val
                        ELSE IF rf.jsonOk THEN rf.jval
                        ELSE defaultRule(FALSE)
           /\ IsYamlExt(sf.ext)
              => /\ scopes = IF sf.yamlOk THEN DecodeScopes(sf.val) ELSE <<>>
                 /\ (scopesFound = "") <=> ~sf.yamlOk
           /\ IsJsonExt(sf.ext)
              => /\ scopes = IF sf.jsonOk THEN DecodeScopes(sf.jval) ELSE <<>>
                 /\ (scopesFound = "") <=> ~sf.jsonOk
           /\ (~IsYamlExt(sf.ext) /\ ~IsJsonExt(sf.ext))
              => /\ scopes = IF sf.yamlOk THEN DecodeScopes(sf.val)
                             ELSE IF sf.jsonOk THEN DecodeScopes(sf.jval)
                             ELSE <<>>
                 /\ (scopesFound = "") <=> (~sf.yamlOk /\ ~sf.jsonOk)

\* a .txt rule file that only the JSON decoder accepts is read as JSON, next
\* to a .yml scope history that only the JSON decoder accepts and is not read
C23_Witness ==
    /\ rev = "current"
    /\ Prepared
    /\ ruleFs["exact"].ext = ".txt"
    /\ ~ruleFs["exact"].yamlOk
    /\ rule = JsonRule
    /\ scopesFs["exact"].ext = ".yml"
    /\ scopesFs["exact"].jsonOk
    /\ scopes = <<>>

-----------------------------------------------------------------------------
(* The description prompt, up to the commit *)

DescLines == {"new feature hoge!", "", "  "}

InitDesc == \E r \in SuggestRules : InitWithRule(r)

NextDesc ==
    \/ runStart
    \/ prepare
    \/ prepare_legacy
    \/ promptType({"feat"})
    \/ promptScope({"", "hoge"})
    \/ promptDesc(DescLines)
    \/ promptBody({<<>>})
    \/ promptBreakingChange({""})
    \/ writeBack
    \/ render
    \/ runEnd

SpecDesc == InitDesc /\ [][NextDesc]_vars

\* how many times a prompt was issued
TimesAsked(prefix) == Cardinality({i \in 1..Len(asked) : asked[i] = prefix})

AfterDesc == pc \notin {"start", "prepare", "promptType", "promptScope", "promptDesc"}

\* C24: the description prompt is issued exactly once; a description that is
\* empty after trimming puts "description required" on standard error and is
\* returned all the same, the prompt is not issued again, and the run goes on
\* to the body prompt, to a message whose description is empty, and to the
\* commit of that message
C24_DescriptionOnce ==
    /\ [](TimesAsked("Description: ") = IF AfterDesc THEN 1 ELSE 0)
    /\ []((AfterDesc /\ desc = "")
           => \E i \in 1..Len(stderr) : stderr[i] = "description required")
    /\ [][ pc = "promptDesc" => pc' = "promptBody" ]_vars
    /\ []((pc = "built" /\ desc = "")
           => msg = typ \o (IF scope = "" THEN "" ELSE "(" \o scope \o ")") \o ": ")
    /\ [][ (pc = "built" /\ desc = "" /\ commits' # commits)
           => commits' = <<msg>> /\ pc' = "done" ]_vars

\* a message with an empty description was committed
C24_Witness ==
    /\ pc = "done"
    /\ desc = ""
    /\ commits = <<"feat(hoge): ">>
    /\ stderr[Len(stderr)] = "description required"
    /\ TimesAsked("Description: ") = 1

-----------------------------------------------------------------------------
(* Validation of a submitted type against the registry *)

\* a registry key the completion list leaves out
Unsuggested(r, k) ==
    /\ Found(r.Types, k)
    /\ \A i \in 1..Len(typeItems(r)) : typeItems(r)[i].Text # k

\* C25: with denyAdlibType set a submission is validated by registry
\* membership alone: a non-empty submission is accepted exactly when it is a
\* key, so a comment key (one starting with "#") and a key whose description
\* is empty are accepted although the completion list never offers them
C25_MembershipOnly ==
    /\ [][ (Submits /\ rule.DenyAdlibType /\ input' # "")
           => ((pc' = "promptScope" /\ typ' = input') <=> Found(rule.Types, input')) ]_vars
    /\ [][ (Submits /\ rule.DenyAdlibType /\ Unsuggested(rule, input'))
           => /\ pc' = "promptScope"
              /\ typ' = input'
              /\ stderr' = stderr
              /\ \A i \in 1..Len(suggested') : suggested'[i].Text # input' ]_vars

\* the comment key was accepted as the type
C25_Witness ==
    /\ rule.DenyAdlibType
    /\ pc = "promptScope"
    /\ typ = "# note"
    /\ prompts = 1
    /\ stderr \in {<<>>, <<"wd">>}
    /\ \A i \in 1..Len(suggested) : suggested[i].Text # "# note"

-----------------------------------------------------------------------------
(* The suggestion list of registries in every insertion order *)

\* the registries holding the entries of SmallTypes in some order
ListRules ==
    { [ defaultRule(FALSE) EXCEPT !.Types = [i \in 1..Len(SmallTypes) |-> SmallTypes[p[i]]] ] :
        p \in { q \in [1..Len(SmallTypes) -> 1..Len(SmallTypes)] :
                  \A i, j \in 1..Len(SmallTypes) : i # j => q[i] # q[j] } }

InitList == \E r \in ListRules : InitWithRule(r)

NextList == runStart \/ prepare \/ prepare_legacy \/ promptType({"", "feat"})

SpecList == InitList /\ [][NextList]_vars

\* C26: the type suggestion list holds, in registry insertion order, exactly
\* the entries whose key does not start with "#" and whose description is
\* not empty
C26_SuggestionList ==
    prompts > 0
    => LET Listed(k) == ~HasPrefix(k, "#") /\ Get(rule.Types, k).Desc # ""
       IN  [i \in 1..Len(suggested) |-> suggested[i].Text]
             = SelectSeq(Keys(rule.Types), Listed)

C26_Witness ==
    /\ prompts > 0
    /\ Keys(rule.Types) = <<"misc", "fix", "# note", "feat">>
    /\ Len(suggested) = 2
    /\ suggested[1].Text = "fix"
    /\ suggested[2].Text = "feat"

-----------------------------------------------------------------------------
(* The staged check, the prompts and the commit *)

\* C27: with nothing staged and debug off Run reports "no changes" and
\* returns success with no prompt issued, no scope-history write and no
\* commit; a prompt is issued only after the staged check; a commit is made
\* at most once, and only of the fully assembled message
C27_NoChangesNoCommit ==
    /\ [][ (pc = "start" /\ pc' \notin {"start", "genFailed", "failed"}
                /\ ~flags.Debug /\ ~wt'.staged)
           => /\ pc' = "done"
              /\ stderr' = Append(stderr, "no changes")
                 \/ stderr' = stderr \o <<"wd", "no changes">>
              /\ asked' = <<>>
              /\ createCalls' = <<>>
              /\ created' = <<>>
              /\ commits' = <<>> ]_vars
    /\ []((pc = "done" /\ ~flags.Debug /\ commits = <<>>)
           => /\ asked = <<>>
              /\ createCalls = <<>>
              /\ stderr # <<>> /\ stderr[Len(stderr)] = "no changes")
    /\ [][ asked' # asked
           => /\ pc \notin {"start", "prepare"}
              /\ flags.Debug \/ wt.staged ]_vars
    /\ [](Len(commits) <= 1)
    /\ [][ commits' # commits
           => /\ pc = "built"
              /\ pc' = "done"
              /\ commits' = <<msg>>
              /\ msg = assemble(header, body, breakingChange)
              /\ Asked("Type: ") /\ Asked("Scope: ") /\ Asked("Description: ") ]_vars

\* --all with a clean working tree: nothing to stage, nothing to commit
C27_Witness ==
    /\ flags = [All |-> TRUE, Debug |-> FALSE]
    /\ wt = [staged |-> FALSE, dirty |-> FALSE]
    /\ pc = "done"
    /\ stderr[Len(stderr)] = "no changes"
    /\ asked = <<>>
    /\ created = <<>>
    /\ commits = <<>>

====
